---- MODULE Spec2Model ----
(***************************************************************************)
(* The provisioner of src/state/errors.go (lines 182-309): a Provisioner   *)
(* with two lazily established watchers (environment, machines), the       *)
(* goroutine running loop()/innerLoop(), and callers of Stop().            *)
(*                                                                         *)
(* The goroutine and the callers of Stop() share the two watcher fields    *)
(* without a lock, so every read and every write of a field is a step of   *)
(* its own, and a second read of a field in one function may see the value *)
(* of the first read (kept in a register) or the field as it is now.       *)
(***************************************************************************)
EXTENDS Integers, Sequences, FiniteSets, TLC

\* ---- bounds of the model ------------------------------------------------
\* steps of the store: configuration snapshots and machine-set deltas sent,
\* watchers torn down by a fault of their own
MaxStoreSteps == 3

\* calls of changes() and invalidate() made by a thread that uses the two
\* subscriptions alone
MaxCalls == 4

\* ---- names ---------------------------------------------------------------
Kinds == {"env", "mach"}
Goroutine == "loop"
Stoppers == {"stop1", "stop2"}
Threads == {Goroutine} \cup Stoppers
Nil == 0

\* No call of changes() or invalidate() has been recorded.
NoCall == [op |-> "none", k |-> "env", sub |-> Nil, ws |-> <<>>]

\* A configuration snapshot is known by its number in the order the store
\* sent them.  Whether environs.NewEnviron or environs.NewConfig accepts a
\* snapshot is decided by code outside this file: either result can come
\* back from the call.

VARIABLES
    watcher,    \* watcher[k]: the field e.watcher / m.watcher (Nil or an id)
    ws,         \* ws[k]: the watchers the store has handed out for k
    environ,    \* p.environ: Nil, or the number of the NewEnviron call
    applied,    \* the configuration the held environ runs with (snapshot id)
    tomb,       \* p.tomb
    where,      \* the function the goroutine is in: "loop", "innerLoop",
                \* "exited" once loop has returned, "unwound" once a panic
                \* has unwound it
    pc,         \* pc[t]: the step thread t is at
    pk,         \* pk[t]: the subscription thread t is working on
    tmp,        \* tmp[t]: the watcher field as thread t last read it
    gch,        \* gch[k]: the channel the goroutine's select waits on
    ret,        \* ret[t]: what Stop() returned to caller t
    panicked,   \* a nil watcher was dereferenced by some thread
    hist,       \* counters of what has happened so far
    limit       \* what this run allows: the callers of Stop, the store's sends

vars == <<watcher, ws, environ, applied, tomb, where, pc, pk, tmp, gch, ret,
          panicked, hist, limit>>

\* ---- tomb ----------------------------------------------------------------
\* tomb.Kill(reason): the first Kill makes Dying() ready; a nil reason never
\* replaces the recorded one.
Kill(t, reason) ==
    [t EXCEPT !.dying = TRUE,
              !.kills = IF t.dying THEN t.kills ELSE t.kills + 1,
              !.reason = IF t.reason = "nil" THEN reason ELSE t.reason]

\* tomb.Done(): the goroutine has exited.
Done(t) == [t EXCEPT !.dead = TRUE, !.dones = t.dones + 1]

\* ---- watchers ------------------------------------------------------------
NewWatcher == [buf |-> <<>>, closed |-> FALSE, stops |-> 0]

\* w.Stop(): the watcher's channel is closed, whatever it held.
StopWatcher(w) ==
    [w EXCEPT !.buf = <<>>, !.closed = TRUE, !.stops = w.stops + 1]

Live(k) == {i \in 1..Len(ws[k]) : ws[k][i].stops = 0}

\* ---- initial state: NewProvisioner (lines 240-248) ------------------------
\* Both watcher fields are nil, there is no environ, the tomb is alive, and
\* the goroutine is about to evaluate its first select.
Start(callers, steps) ==
    /\ limit = [callers |-> callers, steps |-> steps]
    /\ watcher = [k \in Kinds |-> Nil]
    /\ ws = [k \in Kinds |-> <<>>]
    /\ environ = Nil
    /\ applied = Nil
    /\ tomb = [dying |-> FALSE, dead |-> FALSE, reason |-> "nil",
               kills |-> 0, dones |-> 0]
    /\ where = "loop"
    /\ pc = [t \in Threads |-> IF t = Goroutine THEN "chg_check" ELSE "idle"]
    /\ pk = [t \in Threads |-> "env"]
    /\ tmp = [t \in Threads |-> Nil]
    /\ gch = [k \in Kinds |-> Nil]
    /\ ret = [t \in Stoppers |-> "none"]
    /\ panicked = FALSE
    /\ hist = [creates |-> 0, created |-> 0, applies |-> 0, invalid |-> 0,
               dispatches |-> 0, cfgSent |-> 0, machSent |-> 0, faults |-> 0,
               closedActive |-> 0, sawDying |-> FALSE, quiet |-> FALSE,
               last |-> "none", calls |-> 0, entry |-> NoCall]

\* One caller of Stop, the store's sends bounded as above.
Init == Start({"stop1"}, MaxStoreSteps)

\* The runtime has ended the process after a panic that nobody recovered.
Dead == pc[Goroutine] = "crashed"

At(t, step) == ~Dead /\ pc[t] = step

Goto(t, step, k) ==
    /\ pc' = [pc EXCEPT ![t] = step]
    /\ pk' = [pk EXCEPT ![t] = k]

\* Thread t dereferences a nil watcher: Changes() and Stop() are methods of
\* *state.ConfigWatcher and *state.MachinesWatcher that read the watcher, so
\* on a nil receiver the runtime panics.  The panic unwinds the thread it
\* happens in, which takes no further step of this code, while the other
\* threads run on.  In the goroutine it unwinds changes() or invalidate(),
\* then innerLoop if the goroutine was in it, then loop, and runs the
\* deferred p.tomb.Done() (line 251) as loop is left: the goroutine is in
\* neither function any more, the tomb is dead and a Stop blocked in
\* Wait() is released.  In a caller of Stop it unwinds Stop, which has no
\* deferred call.
Panic(t) ==
    /\ panicked' = TRUE
    /\ pc' = [pc EXCEPT ![t] = "panicking"]
    /\ tomb' = IF t = Goroutine THEN Done(tomb) ELSE tomb
    /\ where' = IF t = Goroutine THEN "unwound" ELSE where
    /\ UNCHANGED <<limit, watcher, ws, environ, applied, pk, tmp, gch, ret,
                   hist>>

\* The runtime ends the process of a panic that was not recovered.  loop is
\* the goroutine's first function, so its panic is never recovered; that
\* of a caller of Stop may be recovered by the code that called Stop, and
\* the process then lives on.
Crash ==
    /\ panicked
    /\ ~Dead
    /\ pc' = [pc EXCEPT ![Goroutine] = "crashed"]
    /\ UNCHANGED <<limit, watcher, ws, environ, applied, tomb, where, pk, tmp,
                   gch, ret, panicked, hist>>

\* ---- environment.changes / machines.changes (lines 200-205, 224-229) ------
\* ChangesCheck with the test of the cached watcher left out: every call
\* establishes a watcher.
ChangesCheckAlwaysNew ==
    /\ At(Goroutine, "chg_check")
    /\ tmp' = [tmp EXCEPT ![Goroutine] = watcher[pk[Goroutine]]]
    /\ pc' = [pc EXCEPT ![Goroutine] = "chg_new"]
    /\ UNCHANGED <<limit, watcher, ws, environ, applied, tomb, where, pk, gch, ret,
                   panicked, hist>>

\* if e.watcher == nil
ChangesCheck ==
    /\ At(Goroutine, "chg_check")
    /\ tmp' = [tmp EXCEPT ![Goroutine] = watcher[pk[Goroutine]]]
    /\ pc' = [pc EXCEPT ![Goroutine] =
                IF watcher[pk[Goroutine]] = Nil THEN "chg_new" ELSE "chg_ret"]
    /\ UNCHANGED <<limit, watcher, ws, environ, applied, tomb, where, pk, gch, ret,
                   panicked, hist>>

\* e.watcher = e.st.WatchEnvironConfig()
\* The call touches no field of the Provisioner, so it is one step with the
\* write of its result.
ChangesNew ==
    /\ At(Goroutine, "chg_new")
    /\ LET k == pk[Goroutine]
           id == Len(ws[k]) + 1
       IN /\ ws' = [ws EXCEPT ![k] = Append(@, NewWatcher)]
          /\ watcher' = [watcher EXCEPT ![k] = id]
          /\ tmp' = [tmp EXCEPT ![Goroutine] = id]
    /\ pc' = [pc EXCEPT ![Goroutine] = "chg_ret"]
    /\ UNCHANGED <<limit, environ, applied, tomb, where, pk, gch, ret, panicked, hist>>

\* AfterChanges with loop's select waiting on the machines too
\* (case <-p.machines.changes() added to loop).
AfterChangesBoth(w, k) ==
    IF k = "env" THEN <<"chg_check", "mach">>
    ELSE <<"select", k>>

\* Where the goroutine goes once changes() has returned: loop's select has
\* one changes() operand, innerLoop's has two, evaluated in source order.
AfterChanges(w, k) ==
    IF w = "innerLoop" /\ k = "env" THEN <<"chg_check", "mach">>
    ELSE <<"select", k>>

\* return e.watcher.Changes()
ChangesRet ==
    /\ At(Goroutine, "chg_ret")
    /\ LET k == pk[Goroutine]
       IN \E w \in {tmp[Goroutine], watcher[k]} :
            IF w = Nil
            THEN Panic(Goroutine)
            ELSE /\ gch' = [gch EXCEPT ![k] = w]
                 /\ tmp' = [tmp EXCEPT ![Goroutine] = Nil]
                 /\ Goto(Goroutine, AfterChanges(where, k)[1],
                         AfterChanges(where, k)[2])
                 /\ UNCHANGED <<limit, watcher, ws, environ, applied, tomb, where,
                                ret, panicked, hist>>

\* ---- environment.invalidate / machines.invalidate (lines 208-213, 232-237)
\* if e.watcher != nil
InvalidateCheck(t) ==
    /\ At(t, "inv_check")
    /\ tmp' = [tmp EXCEPT ![t] = watcher[pk[t]]]
    /\ pc' = [pc EXCEPT ![t] =
                IF watcher[pk[t]] = Nil THEN "inv_write" ELSE "inv_stop"]
    /\ UNCHANGED <<limit, watcher, ws, environ, applied, tomb, where, pk, gch, ret,
                   panicked, hist>>

\* log.Printf(..., e.watcher.Stop())
InvalidateStop(t) ==
    /\ At(t, "inv_stop")
    /\ LET k == pk[t]
       IN \E w \in {tmp[t], watcher[k]} :
            IF w = Nil
            THEN Panic(t)
            ELSE /\ ws' = [ws EXCEPT ![k][w] = StopWatcher(@)]
                 /\ pc' = [pc EXCEPT ![t] = "inv_write"]
                 /\ UNCHANGED <<limit, watcher, environ, applied, tomb, where, pk,
                                tmp, gch, ret, panicked, hist>>

\* Where a thread goes once invalidate() has returned: the goroutine
\* continues its loop (the next select), Stop() invalidates the machines
\* after the environment and then waits.
AfterInvalidate(t, k) ==
    IF t = Goroutine THEN <<"chg_check", "env">>
    ELSE IF k = "env" THEN <<"inv_check", "mach">>
    ELSE <<"wait", "env">>

\* e.watcher = nil
InvalidateWrite(t) ==
    /\ At(t, "inv_write")
    /\ watcher' = [watcher EXCEPT ![pk[t]] = Nil]
    /\ tmp' = [tmp EXCEPT ![t] = Nil]
    /\ Goto(t, AfterInvalidate(t, pk[t])[1], AfterInvalidate(t, pk[t])[2])
    /\ UNCHANGED <<limit, ws, environ, applied, tomb, where, gch, ret, panicked, hist>>

\* ---- the select statements of loop and innerLoop --------------------------
\* The channel of the watcher the goroutine waits on is closed.
Closed(k) == gch[k] # Nil /\ ws[k][gch[k]].closed

\* The channel of the watcher the goroutine waits on holds a value.
HasValue(k) == gch[k] # Nil /\ ws[k][gch[k]].buf # <<>>

Value(k) == ws[k][gch[k]].buf[1]

\* The select statement is left: the channels it waited on are dropped.
LeaveSelect == gch' = [k \in Kinds |-> Nil]

\* The value is taken off the channel.
Receive(k) == ws' = [ws EXCEPT ![k][gch[k]].buf = <<>>]

\* case <-p.tomb.Dying(): return         (lines 254-255, 276-277)
\* loop's return runs the deferred p.tomb.Done(); innerLoop's return goes
\* back to loop's for statement, which evaluates its select again.
SelectDying ==
    /\ At(Goroutine, "select")
    /\ tomb.dying
    /\ hist' = [hist EXCEPT !.sawDying = TRUE, !.last = "dying"]
    /\ IF where = "loop"
       THEN /\ tomb' = Done(tomb)
            /\ where' = "exited"
            /\ Goto(Goroutine, "exited", "env")
       ELSE /\ where' = "loop"
            /\ Goto(Goroutine, "chg_check", "env")
            /\ UNCHANGED tomb
    /\ LeaveSelect
    /\ UNCHANGED <<limit, watcher, ws, environ, applied, tmp, ret, panicked>>

\* LoopConfig with the error of NewEnviron not leading to continue.
LoopConfigNoContinue(s) ==
    \E ok \in BOOLEAN :
      /\ hist' = [hist EXCEPT !.creates = @ + 1,
                              !.created = IF ok THEN @ + 1 ELSE @,
                              !.last = IF ok THEN "created" ELSE "createFailed"]
      /\ environ' = IF ok THEN hist.creates + 1 ELSE Nil
      /\ applied' = IF ok THEN s ELSE Nil
      /\ where' = "innerLoop"

\* LoopConfig with the result of NewEnviron kept in a local variable
\* (environ, err := ...) instead of p.environ.
LoopConfigShadowed(s) ==
    \E ok \in BOOLEAN :
      /\ hist' = [hist EXCEPT !.creates = @ + 1,
                              !.created = IF ok THEN @ + 1 ELSE @,
                              !.last = IF ok THEN "created" ELSE "createFailed"]
      /\ environ' = environ
      /\ applied' = IF ok THEN s ELSE Nil
      /\ where' = IF ok THEN "innerLoop" ELSE "loop"

\* LoopConfig with the error of NewEnviron treated as fatal: loop returns.
LoopConfigFatal(s) ==
    \E ok \in BOOLEAN :
      /\ hist' = [hist EXCEPT !.creates = @ + 1,
                              !.created = IF ok THEN @ + 1 ELSE @,
                              !.last = IF ok THEN "created" ELSE "createFailed"]
      /\ environ' = IF ok THEN hist.creates + 1 ELSE Nil
      /\ applied' = IF ok THEN s ELSE Nil
      /\ where' = IF ok THEN "innerLoop" ELSE "exited"

\* loop, lines 261-268: p.environ, err = environs.NewEnviron(config.Map());
\* on an error continue, otherwise p.innerLoop().  p.environ is assigned in
\* both cases: the nil Environ that comes with an error replaces what was
\* held.
LoopConfig(s) ==
    \E ok \in BOOLEAN :
      /\ hist' = [hist EXCEPT !.creates = @ + 1,
                              !.created = IF ok THEN @ + 1 ELSE @,
                              !.last = IF ok THEN "created" ELSE "createFailed"]
      /\ environ' = IF ok THEN hist.creates + 1 ELSE Nil
      /\ applied' = IF ok THEN s ELSE Nil
      /\ where' = IF ok THEN "innerLoop" ELSE "loop"

\* InnerConfig with a valid snapshot leading to a new Environ
\* (p.environ, _ = environs.NewEnviron(...)) instead of SetConfig on the
\* one held.
InnerConfigRecreates(s) ==
    /\ \E valid \in BOOLEAN, ok \in BOOLEAN :
         /\ hist' = [hist EXCEPT !.applies = IF valid THEN @ + 1 ELSE @,
                                 !.creates = IF valid THEN @ + 1 ELSE @,
                                 !.created = IF valid /\ ok THEN @ + 1 ELSE @,
                                 !.invalid = IF valid THEN @ ELSE @ + 1,
                                 !.last = IF valid THEN "applied" ELSE "invalid"]
         /\ applied' = IF valid /\ ok THEN s ELSE applied
         /\ environ' = IF valid THEN hist.creates + 1 ELSE environ
    /\ UNCHANGED where

\* InnerConfig with the error of NewConfig logged but not leading to
\* continue: SetConfig is called all the same.
InnerConfigNoContinue(s) ==
    /\ \E valid \in BOOLEAN, ok \in BOOLEAN :
         /\ hist' = [hist EXCEPT !.applies = @ + 1,
                                 !.invalid = IF valid THEN @ ELSE @ + 1,
                                 !.last = IF valid THEN "applied" ELSE "invalid"]
         /\ applied' = IF ok THEN s ELSE applied
    /\ UNCHANGED <<environ, where>>

\* innerLoop, lines 283-289: config, err := environs.NewConfig(change.Map());
\* on an error continue, otherwise p.environ.SetConfig(config), whose
\* result is dropped.
InnerConfig(s) ==
    /\ \E valid \in BOOLEAN, ok \in BOOLEAN :
         /\ hist' = [hist EXCEPT !.applies = IF valid THEN @ + 1 ELSE @,
                                 !.invalid = IF valid THEN @ ELSE @ + 1,
                                 !.last = IF valid THEN "applied" ELSE "invalid"]
         /\ applied' = IF valid /\ ok THEN s ELSE applied
    /\ UNCHANGED <<environ, where>>

\* case config, ok := <-p.environment.changes(), ok  (lines 256, 278)
SelectConfig ==
    /\ At(Goroutine, "select")
    /\ HasValue("env")
    /\ Receive("env")
    /\ IF where = "loop" THEN LoopConfig(Value("env"))
                         ELSE InnerConfig(Value("env"))
    /\ Goto(Goroutine, "chg_check", "env")
    /\ LeaveSelect
    /\ UNCHANGED <<limit, watcher, tomb, tmp, ret, panicked>>

\* OnConfigClosed with innerLoop returning to loop instead of continuing.
OnConfigClosedReturns(w) == <<"loop", "inv_check", "env">>

\* What the goroutine does when it finds the configuration channel closed:
\* p.environment.invalidate(); continue       (lines 257-260, 279-282)
OnConfigClosed(w) == <<w, "inv_check", "env">>

\* case config, ok := <-p.environment.changes(), !ok
SelectConfigClosed ==
    /\ At(Goroutine, "select")
    /\ Closed("env")
    /\ where' = OnConfigClosed(where)[1]
    /\ Goto(Goroutine, OnConfigClosed(where)[2], OnConfigClosed(where)[3])
    /\ LeaveSelect
    /\ hist' = [hist EXCEPT !.last = "configClosed",
                            !.closedActive =
                               IF where = "innerLoop" THEN @ + 1 ELSE @]
    /\ UNCHANGED <<limit, watcher, ws, environ, applied, tomb, tmp, ret,
                   panicked>>

\* case machines, ok := <-p.machines.changes(), ok: p.processMachines(machines)
\* (lines 290, 295, 309); processMachines does nothing.
SelectMachines ==
    /\ At(Goroutine, "select")
    /\ where = "innerLoop"
    /\ HasValue("mach")
    /\ Receive("mach")
    /\ hist' = [hist EXCEPT !.dispatches = @ + 1, !.last = "dispatched"]
    /\ Goto(Goroutine, "chg_check", "env")
    /\ LeaveSelect
    /\ UNCHANGED <<limit, watcher, environ, applied, tomb, where, tmp, ret, panicked>>

\* What the goroutine does when it finds the machines channel closed:
\* p.machines.invalidate(); continue          (lines 291-294)
OnMachinesClosed(w) == <<w, "inv_check", "mach">>

\* case machines, ok := <-p.machines.changes(), !ok
SelectMachinesClosed ==
    /\ At(Goroutine, "select")
    /\ where = "innerLoop"
    /\ Closed("mach")
    /\ where' = OnMachinesClosed(where)[1]
    /\ Goto(Goroutine, OnMachinesClosed(where)[2], OnMachinesClosed(where)[3])
    /\ LeaveSelect
    /\ hist' = [hist EXCEPT !.last = "machinesClosed"]
    /\ UNCHANGED <<limit, watcher, ws, environ, applied, tomb, tmp, ret,
                   panicked>>

\* What the store has done so far.
StoreSteps == hist.cfgSent + hist.machSent + hist.faults

\* ---- Provisioner.Stop (lines 302-307) -------------------------------------
\* The callers are alike, so the one named first is taken to call first.
MayCall(t) ==
    /\ t \in limit.callers
    /\ t = "stop2" => pc["stop1"] # "idle"

\* p.tomb.Kill(nil)
StopKill(t) ==
    /\ At(t, "idle")
    /\ MayCall(t)
    /\ tomb' = Kill(tomb, "nil")
    /\ hist' = [hist EXCEPT !.quiet =
                  IF tomb.dying THEN @
                  ELSE StoreSteps = 0]
    /\ Goto(t, "inv_check", "env")
    /\ UNCHANGED <<limit, watcher, ws, environ, applied, where, tmp, gch, ret,
                   panicked>>

\* StopWait with Wait() not blocking: Stop returns the reason as it is.
StopWaitNoBlock(t) ==
    /\ At(t, "wait")
    /\ ret' = [ret EXCEPT ![t] = tomb.reason]
    /\ pc' = [pc EXCEPT ![t] = "returned"]
    /\ UNCHANGED <<limit, watcher, ws, environ, applied, tomb, where, pk, tmp, gch,
                   panicked, hist>>

\* return p.tomb.Wait()
StopWait(t) ==
    /\ At(t, "wait")
    /\ tomb.dead
    /\ ret' = [ret EXCEPT ![t] = tomb.reason]
    /\ pc' = [pc EXCEPT ![t] = "returned"]
    /\ UNCHANGED <<limit, watcher, ws, environ, applied, tomb, where, pk, tmp, gch,
                   panicked, hist>>

\* ---- the store ------------------------------------------------------------
\* The channels are unbuffered and read by the goroutine's select alone, so
\* what the store does to a channel is seen only while the select waits on
\* it: the store's steps are taken then, and those on a channel nobody
\* waits on are left out.
Watched(k, i) == pc[Goroutine] = "select" /\ i = gch[k]

\* A watcher can send when its channel is open and empty.
CanSend(k, i) ==
    /\ Watched(k, i)
    /\ ~ws[k][i].closed
    /\ ws[k][i].buf = <<>>

\* A watcher that has not been stopped sends a configuration snapshot.
EmitConfig ==
    /\ ~Dead
    /\ StoreSteps < limit.steps
    /\ \E i \in 1..Len(ws["env"]) :
         /\ CanSend("env", i)
         /\ ws' = [ws EXCEPT !["env"][i].buf = <<hist.cfgSent + 1>>]
    /\ hist' = [hist EXCEPT !.cfgSent = @ + 1]
    /\ UNCHANGED <<limit, watcher, environ, applied, tomb, where, pc, pk, tmp, gch,
                   ret, panicked>>

\* A watcher that has not been stopped sends a machine-set delta.
EmitMachines ==
    /\ ~Dead
    /\ StoreSteps < limit.steps
    /\ \E i \in 1..Len(ws["mach"]) :
         /\ CanSend("mach", i)
         /\ ws' = [ws EXCEPT !["mach"][i].buf = <<hist.machSent + 1>>]
    /\ hist' = [hist EXCEPT !.machSent = @ + 1]
    /\ UNCHANGED <<limit, watcher, environ, applied, tomb, where, pc, pk, tmp, gch,
                   ret, panicked>>

\* A watcher is torn down by a fault of its own: its channel closes, the
\* watcher has not been stopped by anyone.
Fault(k) ==
    /\ ~Dead
    /\ StoreSteps < limit.steps
    /\ \E i \in 1..Len(ws[k]) :
         /\ Watched(k, i)
         /\ ~ws[k][i].closed
         /\ ws' = [ws EXCEPT ![k][i].buf = <<>>, ![k][i].closed = TRUE]
    /\ hist' = [hist EXCEPT !.faults = @ + 1]
    /\ UNCHANGED <<limit, watcher, environ, applied, tomb, where, pc, pk, tmp, gch,
                   ret, panicked>>

\* ---- specification -------------------------------------------------------
GoroutineStep ==
    \/ ChangesCheck
    \/ ChangesNew
    \/ ChangesRet
    \/ SelectDying
    \/ SelectConfig
    \/ SelectConfigClosed
    \/ SelectMachines
    \/ SelectMachinesClosed
    \/ InvalidateCheck(Goroutine)
    \/ InvalidateStop(Goroutine)
    \/ InvalidateWrite(Goroutine)

StopStep(t) ==
    \/ StopKill(t)
    \/ InvalidateCheck(t)
    \/ InvalidateStop(t)
    \/ InvalidateWrite(t)
    \/ StopWait(t)

StoreStep ==
    \/ EmitConfig
    \/ EmitMachines
    \/ \E k \in Kinds : Fault(k)

Next ==
    \/ GoroutineStep
    \/ \E t \in Stoppers : StopStep(t)
    \/ StoreStep
    \/ Crash

Spec == Init /\ [][Next]_vars

\* ---- the subscriptions used by one thread ----------------------------------
\* No goroutine of the Provisioner and no caller of Stop: one thread calls
\* changes() and invalidate() of the two subscriptions in any order, one
\* call at a time.  It starts with both subscriptions as NewProvisioner
\* leaves them (lines 243-244), about to make its first call.
InitSingleThread ==
    /\ limit = [callers |-> {}, steps |-> 0]
    /\ watcher = [k \in Kinds |-> Nil]
    /\ ws = [k \in Kinds |-> <<>>]
    /\ environ = Nil
    /\ applied = Nil
    /\ tomb = [dying |-> FALSE, dead |-> FALSE, reason |-> "nil",
               kills |-> 0, dones |-> 0]
    /\ where = "driver"
    /\ pc = [t \in Threads |-> IF t = Goroutine THEN "select" ELSE "idle"]
    /\ pk = [t \in Threads |-> "env"]
    /\ tmp = [t \in Threads |-> Nil]
    /\ gch = [k \in Kinds |-> Nil]
    /\ ret = [t \in Stoppers |-> "none"]
    /\ panicked = FALSE
    /\ hist = [creates |-> 0, created |-> 0, applies |-> 0, invalid |-> 0,
               dispatches |-> 0, cfgSent |-> 0, machSent |-> 0, faults |-> 0,
               closedActive |-> 0, sawDying |-> FALSE, quiet |-> FALSE,
               last |-> "none", calls |-> 0, entry |-> NoCall]

\* The thread calls op of subscription k; what the subscription is at the
\* call (its cached watcher, the watchers established for it) is recorded.
\* An invalidate() is followed by a changes() of the environment, as it is
\* in loop and innerLoop, before the thread chooses its next call.
DriverCall(op, k) ==
    /\ At(Goroutine, "select")
    /\ where = "driver"
    /\ hist.calls < MaxCalls
    /\ hist' = [hist EXCEPT !.calls = @ + 1,
                            !.entry = [op |-> op, k |-> k, sub |-> watcher[k],
                                       ws |-> ws[k]]]
    /\ Goto(Goroutine, IF op = "changes" THEN "chg_check" ELSE "inv_check", k)
    /\ UNCHANGED <<limit, watcher, ws, environ, applied, tomb, where, tmp, gch,
                   ret, panicked>>

NextSingleThread ==
    \/ \E op \in {"changes", "invalidate"}, k \in Kinds : DriverCall(op, k)
    \/ ChangesCheck
    \/ ChangesNew
    \/ ChangesRet
    \/ InvalidateCheck(Goroutine)
    \/ InvalidateStop(Goroutine)
    \/ InvalidateWrite(Goroutine)

SpecSingleThread == InitSingleThread /\ [][NextSingleThread]_vars

\* Two callers of Stop, which may overlap.
InitTwoStops == Start(Stoppers, MaxStoreSteps - 1)

\* The store's faults are left out of the runs with two callers.
NextTwoStops ==
    \/ GoroutineStep
    \/ \E t \in Stoppers : StopStep(t)
    \/ EmitConfig
    \/ EmitMachines
    \/ Crash

SpecTwoStops == InitTwoStops /\ [][NextTwoStops]_vars

\* A caller that has entered Stop keeps running.
StopRun(t) ==
    \/ InvalidateCheck(t)
    \/ InvalidateStop(t)
    \/ InvalidateWrite(t)
    \/ StopWait(t)

\* The goroutine and a caller inside Stop keep being scheduled, a select
\* whose Dying case is ready again and again does not pass it over for ever,
\* and the runtime does end the process when the goroutine has panicked.
Fairness ==
    /\ WF_vars(GoroutineStep)
    /\ WF_vars(pc[Goroutine] = "panicking" /\ Crash)
    /\ SF_vars(SelectDying)
    /\ \A t \in Stoppers : WF_vars(StopRun(t))

FairSpec == Spec /\ Fairness

\* ---- the states of the Controller ------------------------------------------
\* Idle is loop, Active is innerLoop.
Idle == where = "loop"
Active == where = "innerLoop"
Exited == where = "exited"

\* A panic has unwound the goroutine out of loop.
Unwound == where = "unwound"

\* The goroutine has ended, by the return of loop or by a panic: its
\* deferred p.tomb.Done() has run.
Ended == tomb.dead

\* A step of the goroutine: its position changes, and not by the end of
\* the process.
GoroutineMoves ==
    /\ pc'[Goroutine] # pc[Goroutine]
    /\ pc'[Goroutine] # "crashed"

\* The goroutine finishes an invalidate() of subscription k (e.watcher = nil
\* is its last statement).
FinishesInvalidate(k) ==
    /\ pc[Goroutine] = "inv_write"
    /\ pk[Goroutine] = k
    /\ GoroutineMoves

C2_AtMostOneLiveWatcher == \A k \in Kinds : Cardinality(Live(k)) <= 1

\* ---- C3 ---------------------------------------------------------------------
\* Every caller of Stop has returned.
StopReturned == \A t \in limit.callers : pc[t] = "returned"

\* C3: once the goroutine has exited and Stop has returned, neither
\* subscription has a watcher that is established and not stopped.
C3_ReleasedOnExit ==
    (Exited /\ StopReturned) => \A k \in Kinds : Live(k) = {}

\* ---- C4 ---------------------------------------------------------------------
\* The goroutine is inside invalidate().
Invalidating == pc[Goroutine] \in {"inv_check", "inv_stop", "inv_write"}

\* C4: once the goroutine has taken the Dying case of a select, it calls
\* neither NewEnviron nor SetConfig nor processMachines, establishes no
\* watcher and is in no invalidate(); and tomb.Done() is called at most once.
C4_NoWorkOnceCancellationSeen ==
    [][/\ hist.sawDying =>
            /\ hist'.creates = hist.creates
            /\ hist'.applies = hist.applies
            /\ hist'.invalid = hist.invalid
            /\ hist'.dispatches = hist.dispatches
            /\ \A k \in Kinds : Len(ws'[k]) = Len(ws[k])
            /\ ~Invalidating'
       /\ tomb'.dones <= 1]_vars

\* ---- C5 ---------------------------------------------------------------------
\* C5 as claimed: an Environment handle is held exactly when the Controller
\* is Active.
C5_HandleIffActive == (environ # Nil) <=> Active

\* C5 as amended: a handle is held whenever the Controller is Active; as
\* long as the goroutine has neither seen a cancellation nor been unwound
\* by a panic, and in particular as long as no cancellation is requested,
\* a handle is held only in Active; Active is left only after a
\* cancellation was requested, by the Dying case of innerLoop's select or
\* by a panic that unwinds the goroutine, and in both cases the handle is
\* still held when it is left.
C5_HandleInActiveKeptAfter ==
    /\ [](Active => environ # Nil)
    /\ []((~hist.sawDying /\ ~Unwound) => ((environ # Nil) <=> Active))
    /\ [](~tomb.dying => (~hist.sawDying /\ ~Unwound))
    /\ [][(Active /\ ~Active') =>
            /\ tomb.dying
            /\ \/ hist'.sawDying /\ hist'.last = "dying" /\ Idle'
               \/ Unwound' /\ pc'[Goroutine] = "panicking"
            /\ environ' = environ /\ environ' # Nil]_vars

\* The goroutine left Active on a cancellation and exited: the handle is
\* still held.
C5_Witness == Exited /\ environ # Nil /\ hist.last = "dying"

\* ---- C6 ---------------------------------------------------------------------
\* Every caller of Stop got nil.
StopReturnedNil ==
    \A t \in limit.callers : pc[t] = "returned" /\ ret[t] = "nil"

\* C6: when Stop is called before the store has sent or closed anything,
\* the goroutine eventually ends and Stop returns nil.
C6_StopBeforeAnyEventReturns ==
    (tomb.dying /\ hist.quiet) ~> (Ended /\ StopReturnedNil)

\* ---- C7 ---------------------------------------------------------------------
\* Both callers have called Stop.
StopCalledTwice == \A t \in Stoppers : pc[t] # "idle"

\* C7: when Stop has been called twice, one call overlapping the other or
\* following it, nothing has failed, the cancellation was requested once in
\* effect, and every call that has returned has returned nil.
C7_StopTwiceIsSafe ==
    StopCalledTwice =>
        /\ ~panicked
        /\ tomb.kills = 1
        /\ \A t \in Stoppers : pc[t] = "returned" => ret[t] = "nil"

\* ---- C8 ---------------------------------------------------------------------
\* C8: as long as no NewEnviron call has succeeded, the Controller is not
\* Active and processMachines has not been called; and unless a
\* cancellation has been requested, the goroutine is still in loop.
C8_IdleWhileNothingConstructs ==
    hist.created = 0 =>
        /\ ~Active
        /\ hist.dispatches = 0
        /\ ~tomb.dying => (Idle /\ ~panicked /\ tomb.dones = 0)

\* Two snapshots were rejected by NewEnviron and a close of the channel was
\* handled: the goroutine waits in loop for the next snapshot.
C8_Witness ==
    /\ hist.creates = 2
    /\ hist.created = 0
    /\ hist.faults = 1
    /\ Idle
    /\ pc[Goroutine] = "select"
    /\ Len(ws["env"]) = 2
    /\ ~tomb.dying

\* ---- C9 ---------------------------------------------------------------------
\* The goroutine takes a step of handling a closed machines channel: the
\* !ok case of the select, or a step of p.machines.invalidate().
HandlesMachinesClosed ==
    /\ GoroutineMoves
    /\ hist'.last = "machinesClosed"
    /\ pc[Goroutine] = "select" \/ Invalidating

\* C9: every step of handling a closed machines channel leaves the
\* Controller Active with the handle it held and leaves the configuration
\* subscription as it was, and the handling ends with the machines
\* subscription unsubscribed.
C9_MachinesClosedTouchesOnlyMachines ==
    [][HandlesMachinesClosed =>
         /\ Active /\ Active'
         /\ environ' = environ /\ environ # Nil
         /\ applied' = applied
         /\ watcher'["env"] = watcher["env"]
         /\ ws'["env"] = ws["env"]
         /\ pc[Goroutine] = "inv_write" => watcher'["mach"] = Nil]_vars

\* ---- C10 --------------------------------------------------------------------
\* C10: the step in which NewConfig rejects a snapshot calls no SetConfig
\* and leaves the Controller Active with the same handle and the same
\* applied configuration; the goroutine goes on to its next select.
C10_InvalidSnapshotSkipped ==
    [][hist'.invalid # hist.invalid =>
         /\ hist'.applies = hist.applies
         /\ Active /\ Active'
         /\ environ' = environ /\ environ # Nil
         /\ applied' = applied
         /\ pc'[Goroutine] = "chg_check"
         /\ panicked' = panicked]_vars

\* A snapshot was applied and the next one was rejected by NewConfig: the
\* first is still the applied one.
C10_Witness ==
    /\ hist.last = "invalid"
    /\ hist.applies = 1
    /\ hist.invalid = 1
    /\ Active
    /\ applied = 2
    /\ hist.cfgSent = 3

\* ---- C11 --------------------------------------------------------------------
\* C11: the Environment handle and the two watcher fields are written by
\* the goroutine alone: every step that changes one of them is a step of
\* the goroutine.
C11_GoroutineSoleWriter ==
    [][(watcher' # watcher \/ environ' # environ) => GoroutineMoves]_vars

\* ---- C12 --------------------------------------------------------------------
\* C12: the goroutine has exited only if a cancellation was requested:
\* until then it is in loop or innerLoop and nothing has failed, whatever
\* the store sent or closed and whatever NewEnviron, NewConfig and SetConfig
\* answered; and the tomb's reason, which is what Stop returns, is nil.
C12_ExitsOnlyOnCancellation ==
    /\ (Exited \/ tomb.dead \/ tomb.dones > 0) => tomb.dying
    /\ ~tomb.dying => (where \in {"loop", "innerLoop"} /\ ~panicked)
    /\ tomb.reason = "nil"
    /\ \A t \in Stoppers :
         /\ ret[t] \in {"none", "nil"}
         /\ pc[t] = "returned" => ret[t] = "nil"

\* NewEnviron failed once and succeeded once, a channel was closed under
\* the goroutine, and the goroutine exited on the cancellation: Stop
\* returned nil.
C12_Witness ==
    /\ Exited
    /\ StopReturnedNil
    /\ hist.faults = 1
    /\ hist.creates = 2
    /\ hist.created = 1

\* ---- C13 --------------------------------------------------------------------
\* C13: for a subscription used by one thread, with e what the
\* subscription was when the call was made: a changes() returning has
\* established exactly one new watcher and cached it if none was cached,
\* and has established none and kept the cached one otherwise, and what it
\* returns is the channel of the cached watcher; an invalidate() returning
\* has stopped the cached watcher once if there was one and has stopped
\* nothing otherwise, and leaves no watcher cached; no call fails.
C13_SubscriptionContract ==
    /\ [][LET e == hist.entry
              k == hist.entry.k
          IN /\ (pc[Goroutine] = "chg_ret" /\ e.op = "changes"
                    /\ GoroutineMoves) =>
                   /\ e.sub = Nil => /\ ws'[k] = Append(e.ws, NewWatcher)
                                     /\ watcher'[k] = Len(e.ws) + 1
                   /\ e.sub # Nil => /\ ws'[k] = e.ws
                                     /\ watcher'[k] = e.sub
                   /\ gch'[k] = watcher'[k]
             /\ (pc[Goroutine] = "inv_write" /\ e.op = "invalidate"
                    /\ GoroutineMoves) =>
                   /\ watcher'[k] = Nil
                   /\ e.sub = Nil => ws'[k] = e.ws
                   /\ e.sub # Nil =>
                        ws'[k] = [e.ws EXCEPT ![e.sub] = StopWatcher(@)]]_vars
    /\ [](~panicked)

\* The thread has made four calls on the machines subscription, the last an
\* invalidate() that found no watcher cached: one watcher was established
\* in all and it was stopped once.
C13_Witness ==
    /\ hist.calls = 4
    /\ hist.entry = [op |-> "invalidate", k |-> "mach", sub |-> Nil,
                     ws |-> <<StopWatcher(NewWatcher)>>]
    /\ pc[Goroutine] = "chg_check"
    /\ ws["mach"] = <<StopWatcher(NewWatcher)>>
    /\ watcher["mach"] = Nil

\* ---- C14 --------------------------------------------------------------------
\* C14: a caller inside Stop has requested the cancellation; it enters the
\* invalidate() of the environment from the Kill, that of the machines
\* from the end of that of the environment, and Wait() from the end of
\* that of the machines; when Stop has returned the goroutine has ended
\* (loop has returned or was unwound by a panic, and Done() was called),
\* and from then on the goroutine takes no step of loop or innerLoop:
\* nothing is serviced, established or stopped by it.
C14_StopWaitsForGoroutine ==
    /\ [](\A t \in Stoppers :
            /\ pc[t] # "idle" => tomb.dying
            /\ pc[t] = "returned" =>
                 /\ tomb.dead /\ tomb.dones = 1
                 /\ pc[Goroutine] \in {"exited", "panicking", "crashed"}
                 /\ Exited <=> ~panicked)
    /\ [][\A t \in Stoppers :
            /\ (pc[t] = "idle" /\ pc'[t] # "idle") =>
                 (tomb'.dying /\ pc'[t] = "inv_check" /\ pk'[t] = "env")
            /\ (pk[t] = "env" /\ pk'[t] = "mach") =>
                 /\ pc[t] = "inv_write" /\ pc'[t] = "inv_check"
                 /\ watcher'["env"] = Nil
            /\ (pc[t] # "wait" /\ pc'[t] = "wait") =>
                 /\ pc[t] = "inv_write" /\ pk[t] = "mach"
                 /\ watcher'["mach"] = Nil
            /\ (pc[t] # "returned" /\ pc'[t] = "returned") =>
                 (pc[t] = "wait" /\ tomb.dead)
            /\ pc[t] = "returned" =>
                 /\ ~GoroutineMoves
                 /\ UNCHANGED <<where, environ, applied, hist, gch, tomb,
                                watcher>>
                 /\ \A k \in Kinds : Len(ws'[k]) = Len(ws[k])]_vars

\* Stop has returned after the goroutine, Active with both watchers
\* established, had serviced a machine-set delta and exited.
C14_Witness ==
    /\ pc["stop1"] = "returned"
    /\ Exited
    /\ hist.dispatches = 1
    /\ hist.created = 1
    /\ \A k \in Kinds : Len(ws[k]) >= 1 /\ Live(k) = {}

\* ---- C15 --------------------------------------------------------------------
\* What the goroutine records when it finds the channel of k closed.
ClosedOf(k) == IF k = "env" THEN "configClosed" ELSE "machinesClosed"

\* C15: the goroutine leaves a select for an invalidate() exactly on a
\* closed channel, and the invalidate() is that of the subscription whose
\* channel is closed; until the invalidate() has ended the goroutine calls
\* no changes(), stays in the function it is in, does not touch the tomb
\* and does not fail, and at its end the subscription has no watcher; the
\* next changes() of that subscription finds no watcher and establishes a
\* new one, which is the one the next select waits on.  In particular a
\* close seen in loop leaves the goroutine in loop and never ends it.
C15_ClosedChannelResubscribed ==
    /\ [][/\ (pc[Goroutine] = "select" /\ pc'[Goroutine] = "inv_check") =>
               /\ Closed(pk'[Goroutine])
               /\ hist'.last = ClosedOf(pk'[Goroutine])
               /\ where' = where /\ tomb' = tomb
               /\ watcher' = watcher /\ ws' = ws
          /\ (Invalidating /\ GoroutineMoves) =>
               /\ where' = where
               /\ pk[Goroutine] = "env" \/ Active
               /\ hist.last = ClosedOf(pk[Goroutine])
               /\ pc'[Goroutine] \in {"inv_stop", "inv_write", "chg_check"}
               /\ tomb' = tomb /\ panicked' = panicked
               /\ pc'[Goroutine] = "chg_check" =>
                    /\ pc[Goroutine] = "inv_write"
                    /\ watcher'[pk[Goroutine]] = Nil
          /\ (pc[Goroutine] = "chg_check" /\ GoroutineMoves
                /\ hist.last = ClosedOf(pk[Goroutine])) =>
               (watcher[pk[Goroutine]] = Nil /\ pc'[Goroutine] = "chg_new")
          /\ (pc[Goroutine] = "chg_new" /\ GoroutineMoves) =>
               /\ ws'[pk[Goroutine]] = Append(ws[pk[Goroutine]], NewWatcher)
               /\ watcher'[pk[Goroutine]] = Len(ws'[pk[Goroutine]])]_vars
    /\ [](\A k \in Kinds :
            (pc[Goroutine] = "select" /\ hist.last = ClosedOf(k)) =>
               /\ gch[k] = Len(ws[k])
               /\ Len(ws[k]) >= 2
               /\ where \in {"loop", "innerLoop"})

\* ---- C16 --------------------------------------------------------------------
\* The goroutine, in innerLoop, takes a snapshot that NewConfig accepts.
AppliesInActive ==
    /\ Active
    /\ pc[Goroutine] = "select"
    /\ GoroutineMoves
    /\ hist'.last = "applied"

\* C16: taking a snapshot that NewConfig accepts in innerLoop is one call
\* of SetConfig on the handle held, which stays the handle held, with no
\* call of NewEnviron and the goroutine still in innerLoop; SetConfig is
\* called in no other step, and no step taken in innerLoop calls
\* NewEnviron or changes the handle.
C16_ValidSnapshotAppliedOnce ==
    [][/\ AppliesInActive =>
            /\ HasValue("env")
            /\ hist'.applies = hist.applies + 1
            /\ hist'.invalid = hist.invalid
            /\ environ # Nil
            /\ Active'
            /\ applied' \in {applied, Value("env")}
       /\ hist'.applies # hist.applies => AppliesInActive
       /\ Active => (hist'.creates = hist.creates /\ environ' = environ)]_vars

\* Two snapshots were applied in innerLoop to the handle of the one
\* NewEnviron call.
C16_Witness ==
    /\ Active
    /\ hist.last = "applied"
    /\ hist.applies = 2
    /\ hist.creates = 1
    /\ environ = 1
    /\ applied = 3

\* ---- C17 --------------------------------------------------------------------
\* C17: whatever state the goroutine is in when the cancellation is
\* requested, the goroutine eventually ends and every call of Stop
\* eventually returns.
C17_CancellationTerminates == tomb.dying ~> (Ended /\ StopReturned)

\* ---- C18 --------------------------------------------------------------------
\* C18: no watcher has had its Stop() called more than once.
C18_StoppedAtMostOnce ==
    \A k \in Kinds : \A i \in 1..Len(ws[k]) : ws[k][i].stops <= 1

\* ---- C19 --------------------------------------------------------------------
\* C19: as long as no NewEnviron call has succeeded, the machines
\* subscription has no watcher, none was ever established for it and the
\* goroutine waits on none; a machines watcher is established only by a
\* step taken in innerLoop.
C19_MachinesWatchOnlyAfterConstruction ==
    /\ [](hist.created = 0 =>
            /\ watcher["mach"] = Nil
            /\ ws["mach"] = <<>>
            /\ gch["mach"] = Nil)
    /\ [][Len(ws'["mach"]) # Len(ws["mach"]) =>
            (Active /\ environ # Nil /\ hist.created > 0)]_vars

\* NewEnviron failed on two snapshots, then Stop was called and has
\* returned: its machines.invalidate() found no watcher, none was ever
\* established.
C19_Witness ==
    /\ hist.created = 0
    /\ hist.creates = 2
    /\ pc["stop1"] = "returned"
    /\ ws["mach"] = <<>>
    /\ Len(ws["env"]) >= 1

\* ---- C20 --------------------------------------------------------------------
\* C20: every step that calls SetConfig or processMachines is taken in
\* innerLoop with a handle held, and the handle is the result of the last
\* NewEnviron call made so far, which succeeded (a failed call leaves no
\* handle); the step keeps the handle.
C20_HandleIsLatestConstruction ==
    [][(hist'.applies # hist.applies \/ hist'.dispatches # hist.dispatches) =>
         /\ Active
         /\ environ # Nil
         /\ environ = hist.creates
         /\ hist.created >= 1
         /\ environ' = environ]_vars

\* The goroutine saw the cancellation in innerLoop, returned to loop, took
\* a second snapshot there, built a second Environ and applied a third
\* snapshot to it.
C20_Witness ==
    /\ hist.sawDying
    /\ hist.creates = 2
    /\ hist.created = 2
    /\ hist.last = "applied"
    /\ environ = 2
    /\ applied = 3
    /\ Active

====
